---- MODULE Spec2Model ----
(***************************************************************************)
(* Model of backend/app.py: a FastAPI service that loads a GPT-2 tokenizer *)
(* and model once at import time and serves five POST endpoints and one    *)
(* GET endpoint that shape the model's outputs into JSON payloads.         *)
(*                                                                         *)
(* Strings are sequences of one-character strings.  The tokenizer's word   *)
(* boundary marker (U+0120) is written "G"; request texts are drawn from   *)
(* an alphabet that does not contain it.  Floating point numbers are       *)
(* integers (hidden values, logits, norms) or <<numerator, denominator>>   *)
(* pairs (probabilities, attention weights).                               *)
(***************************************************************************)
EXTENDS Integers, Sequences, FiniteSets, TLC

VARIABLES tokenizer, model, pc, request, response, loaded

vars == <<tokenizer, model, pc, request, response, loaded>>

\* ---------------------------------------------------------------- bounds
MaxTextLen == 4
NumBlocks == 2
NumHeads == 2

\* ------------------------------------------------------- program constants
TopK == 10
NComponents == 3

\* ------------------------------------------------------------ Python values
None == [none |-> TRUE]
Unbound == [unbound |-> TRUE]
Raised == [raised |-> "Exception"]
NoRequest == [endpoint |-> "-"]
NoResponse == [pending |-> TRUE]

IsRaised(v) == DOMAIN v = {"raised"}

\* torch.Tensor.tolist(): the nesting depth of the list is the tensor's rank
tolist(shape, data) == [rank |-> Len(shape), list |-> data]

\* a list literal []
EmptyList == [rank |-> 1, list |-> <<>>]

PyLen(l) == Len(l.list)

\* ------------------------------------------------------------ request texts
Marker == "G"
Chars == {" ", "a"}
Texts == UNION {[1..n -> Chars] : n \in 0..MaxTextLen}

\* ---------------------------------------------------------------- tokenizer
\* The vocabulary: id i (0-based) is Vocab[i + 1].
Vocab ==
  << <<"a">>, <<"b">>, <<Marker>>, <<Marker, "a">>, <<Marker, "b">>,
     <<Marker, Marker>>, <<"c">>, <<Marker, "c">>, <<"d">>, <<Marker, "d">>,
     <<"<", "|", "e", "o", "t", "|", ">">> >>

EosToken == Vocab[Len(Vocab)]

\* vocabulary sizes and weights of the snapshots that "gpt2" may resolve to
Seeds == {0, 1}

VocabSizes == {6, Len(Vocab)}

TokenId(tok) == (CHOOSE i \in 1..Len(Vocab) : Vocab[i] = tok) - 1

RECURSIVE LeadingSpaces(_)
LeadingSpaces(text) ==
  IF text = <<>> \/ text[1] # " " THEN 0 ELSE 1 + LeadingSpaces(Tail(text))

RECURSIVE SpaceTokens(_)
SpaceTokens(k) ==
  IF k = 0 THEN <<>>
  ELSE IF k = 1 THEN << <<Marker>> >>
  ELSE << <<Marker, Marker>> >> \o SpaceTokens(k - 2)

\* Byte-level BPE: a space is mapped to the marker; a run of spaces that
\* precedes a letter gives its last space to that letter.
RECURSIVE bpe(_)
bpe(text) ==
  IF text = <<>> THEN <<>>
  ELSE IF text[1] # " " THEN << <<text[1]>> >> \o bpe(Tail(text))
  ELSE LET k == LeadingSpaces(text)
           rest == SubSeq(text, k + 1, Len(text))
       IN IF rest = <<>> THEN SpaceTokens(k)
          ELSE SpaceTokens(k - 1) \o << <<Marker, rest[1]>> >> \o bpe(Tail(rest))

encode(text) == [i \in 1..Len(bpe(text)) |-> TokenId(bpe(text)[i])]

\* tokenizer(text, return_tensors="pt"): a batch of one sequence
tokenizer_call(text) ==
  LET ids == encode(text)
  IN [input_ids |-> <<ids>>, attention_mask |-> <<[i \in 1..Len(ids) |-> 1]>>]

convert_ids_to_tokens(ids) == [i \in 1..Len(ids) |-> Vocab[ids[i] + 1]]

\* tokenizer.decode([idx]): the marker is mapped back to a space
decode(idx) ==
  LET tok == Vocab[idx + 1]
  IN [i \in 1..Len(tok) |-> IF tok[i] = Marker THEN " " ELSE tok[i]]

RECURSIVE lstrip(_)
lstrip(s) == IF s # <<>> /\ s[1] = " " THEN lstrip(Tail(s)) ELSE s

RECURSIVE rstrip(_)
rstrip(s) ==
  IF s # <<>> /\ s[Len(s)] = " " THEN rstrip(SubSeq(s, 1, Len(s) - 1)) ELSE s

strip(s) == rstrip(lstrip(s))

\* -------------------------------------------------------------------- model
\* Stand-ins for the checkpoint's arithmetic: the values depend on the
\* weights (seed), the layer, the position and the token id.
HiddenVal(mdl, layer, pos, id, d) ==
  ((mdl.seed * 2 + layer * 3 + pos * 5 + id * 7 + d * 4) % 7) - 3

Logit(mdl, ids, pos, v) == ((mdl.seed * 3 + ids[pos] * 5 + pos + v * 7) % 5) - 2

\* causal attention: query q attends uniformly to the keys k <= q
AttnWeight(q, k) == IF k <= q THEN <<1, q>> ELSE <<0, 1>>

\* model(input_ids): logits [1, n, V], hidden_states (L + 1) x [1, n, H],
\* attentions L x [1, heads, n, n]
forward(mdl, ids) ==
  LET n == Len(ids)
  IN IF n = 0 /\ mdl.empty_input_raises THEN Raised
     ELSE [logits |-> <<[pos \in 1..n |->
                          [v \in 1..mdl.vocab_size |-> Logit(mdl, ids, pos, v - 1)]]>>,
           hidden_states |->
             [layer \in 1..(NumBlocks + 1) |->
               <<[pos \in 1..n |->
                   [d \in 1..mdl.hidden_dim |->
                     HiddenVal(mdl, layer - 1, pos, ids[pos], d)]]>>],
           attentions |->
             [layer \in 1..NumBlocks |->
               <<[h \in 1..NumHeads |->
                   [q \in 1..n |-> [k \in 1..n |-> AttnWeight(q, k)]]]>>]]

RECURSIVE SumSeq(_)
SumSeq(s) == IF s = <<>> THEN 0 ELSE s[1] + SumSeq(Tail(s))

MinSeq(s) == CHOOSE m \in {s[i] : i \in 1..Len(s)} : \A i \in 1..Len(s) : m <= s[i]

Isqrt(n) == CHOOSE r \in 0..n : r * r <= n /\ n < (r + 1) * (r + 1)

\* torch.norm(vec).item()
norm(vec) == Isqrt(SumSeq([i \in 1..Len(vec) |-> vec[i] * vec[i]]))

\* torch.softmax(logits, dim=-1), base 2, as <<numerator, denominator>>
softmax(logits) ==
  LET w == [i \in 1..Len(logits) |-> 2 ^ (logits[i] - MinSeq(logits))]
  IN [i \in 1..Len(logits) |-> <<w[i], SumSeq(w)>>]

ProbGeq(a, b) == a[1] * b[2] >= b[1] * a[2]

RECURSIVE topk_from(_, _, _)
topk_from(probs, k, rem) ==
  IF k = 0 THEN <<>>
  ELSE LET best == CHOOSE i \in rem : \A j \in rem :
                     /\ ProbGeq(probs[i], probs[j])
                     /\ (ProbGeq(probs[j], probs[i]) => i <= j)
       IN <<best>> \o topk_from(probs, k - 1, rem \ {best})

\* mutant: torch.topk(..., sorted=False), the k largest in index order
topk_unsorted(probs, k) ==
  IF k > Len(probs) THEN Raised
  ELSE LET top == {topk_from(probs, k, 1..Len(probs))[i] : i \in 1..k}
           RankOf(i) == Cardinality({j \in top : j <= i})
           idx == [r \in 1..k |-> CHOOSE i \in top : RankOf(i) = r]
       IN [values |-> [i \in 1..k |-> probs[idx[i]]],
           indices |-> [i \in 1..k |-> idx[i] - 1]]

\* torch.topk(probs, k): the k largest, largest first; 1-based positions here.
\* Raises when k exceeds the size of the dimension.
topk(probs, k) ==
  IF k > Len(probs) THEN Raised
  ELSE LET idx == topk_from(probs, k, 1..Len(probs))
       IN [values |-> [i \in 1..k |-> probs[idx[i]]],
           indices |-> [i \in 1..k |-> idx[i] - 1]]

\* ------------------------------------------------------------- module load
LoadedTokenizers ==
  [vocab_size : VocabSizes, pad_token : {None}, eos_token : {EosToken}]

LoadedModels ==
  [vocab_size : VocabSizes, seed : Seeds, hidden_dim : {2, 3},
   empty_input_raises : BOOLEAN, training : BOOLEAN]

Init ==
  /\ tokenizer = Unbound
  /\ model = Unbound
  /\ pc = "load_tokenizer"
  /\ request = NoRequest
  /\ response = NoResponse
  /\ loaded = Unbound

\* line 35
load_tokenizer ==
  /\ pc = "load_tokenizer"
  /\ tokenizer' \in LoadedTokenizers
  /\ pc' = "load_model"
  /\ UNCHANGED <<model, request, response, loaded>>

\* line 36
load_model ==
  /\ pc = "load_model"
  /\ model' \in {m \in LoadedModels : m.vocab_size = tokenizer.vocab_size}
  /\ pc' = "eval"
  /\ UNCHANGED <<tokenizer, request, response, loaded>>

\* line 37
model_eval ==
  /\ pc = "eval"
  /\ model' = [model EXCEPT !.training = FALSE]
  /\ pc' = "pad_token"
  /\ UNCHANGED <<tokenizer, request, response, loaded>>

\* lines 39-40
set_pad_token ==
  /\ pc = "pad_token"
  /\ tokenizer' = IF tokenizer.pad_token = None
                  THEN [tokenizer EXCEPT !.pad_token = tokenizer.eos_token]
                  ELSE tokenizer
  /\ pc' = "serving"
  /\ loaded' = [tokenizer |-> tokenizer', model |-> model]
  /\ UNCHANGED <<model, request, response>>

\* mutant: the except clause resets the model only
load_error_handler_model_only(tok, mdl) == [tokenizer |-> tok, model |-> None]

\* lines 41-44: any statement of the load block raised
load_error_handler(tok, mdl) == [tokenizer |-> None, model |-> None]

load_error ==
  /\ pc \in {"load_tokenizer", "load_model", "eval", "pad_token"}
  /\ tokenizer' = load_error_handler(tokenizer, model).tokenizer
  /\ model' = load_error_handler(tokenizer, model).model
  /\ pc' = "serving"
  /\ loaded' = [tokenizer |-> tokenizer', model |-> model']
  /\ UNCHANGED <<request, response>>

\* ----------------------------------------------------------------- handlers
\* The statement of the handler at which an injected exception is raised.
FaultPoints(endpoint) ==
  CASE endpoint = "/tokenize" -> {"none", "tokenize"}
    [] endpoint = "/next_token" -> {"none", "tokenize", "forward", "topk"}
    [] endpoint = "/residual_stream" -> {"none", "tokenize", "forward", "shape"}
    [] endpoint = "/attention" -> {"none", "tokenize", "forward", "shape"}
    [] endpoint = "/embeddings" -> {"none", "tokenize", "forward", "shape", "pca"}
    [] OTHER -> {"none"}

\* mutant: the handler has no try/except, the exception leaves the handler
TryExceptMissing(body, fallback) == body

\* try: body  except Exception: return fallback
TryExcept(body, fallback) == IF IsRaised(body) THEN fallback ELSE body

\* mutant: token.replace(marker, ' ') instead of rewriting the leading marker
clean_token_replace_all(token) ==
  [i \in 1..Len(token) |-> IF token[i] = Marker THEN " " ELSE token[i]]

\* lines 77-80
clean_token(token) ==
  IF token # <<>> /\ token[1] = Marker THEN <<" ">> \o Tail(token) ELSE token

\* mutant: the seen-set test is dropped, every cleaned token is appended
clean_loop_no_seen(raw_tokens, cleaned_tokens, seen_tokens) ==
  cleaned_tokens \o [i \in 1..Len(raw_tokens) |-> clean_token(raw_tokens[i])]

\* lines 75-85
RECURSIVE clean_loop(_, _, _)
clean_loop(raw_tokens, cleaned_tokens, seen_tokens) ==
  IF raw_tokens = <<>> THEN cleaned_tokens
  ELSE LET clean == clean_token(raw_tokens[1])
       IN IF clean \notin seen_tokens
          THEN clean_loop(Tail(raw_tokens), Append(cleaned_tokens, clean),
                          seen_tokens \cup {clean})
          ELSE clean_loop(Tail(raw_tokens), cleaned_tokens, seen_tokens)

\* lines 67-91
tokenize_body(text, fault) ==
  IF fault = "tokenize" THEN Raised
  ELSE LET inputs == tokenizer_call(text)
           n == Len(inputs.input_ids[1])
           raw_tokens == convert_ids_to_tokens(inputs.input_ids[1])
       IN [input_ids |-> tolist(<<n>>, inputs.input_ids[1]),
           tokens |-> clean_loop(raw_tokens, <<>>, {}),
           attention_mask |-> tolist(<<1, n>>, inputs.attention_mask)]

tokenize_failure ==
  [input_ids |-> EmptyList, tokens |-> <<>>, attention_mask |-> EmptyList]

\* lines 63-94
tokenize_return(tok, text, fault) ==
  IF tok = None THEN tokenize_failure
  ELSE TryExcept(tokenize_body(text, fault), tokenize_failure)

\* lines 112-148
next_token_body(mdl, text, fault) ==
  IF fault = "tokenize" THEN Raised
  ELSE LET inputs == <<encode(text)>>
           outputs == IF fault = "forward" THEN Raised ELSE forward(mdl, inputs[1])
       IN IF IsRaised(outputs) THEN Raised
          ELSE IF Len(outputs.logits[1]) = 0 THEN Raised  \* logits[0, -1, :]
          ELSE LET next_token_logits == outputs.logits[1][Len(outputs.logits[1])]
                   probs == softmax(next_token_logits)
                   top == IF fault = "topk" THEN Raised ELSE topk(probs, TopK)
               IN IF IsRaised(top) THEN Raised
                  ELSE LET top_tokens == [i \in 1..TopK |-> decode(top.indices[i])]
                           top_logits ==
                             [i \in 1..TopK |-> next_token_logits[top.indices[i] + 1]]
                       IN [token |-> strip(top_tokens[1]),
                           token_id |-> top.indices[1],
                           probability |-> top.values[1],
                           probs |-> [i \in 1..TopK |->
                                       [token |-> strip(top_tokens[i]),
                                        prob |-> top.values[i],
                                        logit |-> top_logits[i]]]]

next_token_failure ==
  [token |-> <<>>, token_id |-> -1, probability |-> <<0, 1>>, probs |-> <<>>]

\* lines 107-151
next_token_return(tok, mdl, text, fault) ==
  IF tok = None \/ mdl = None THEN next_token_failure
  ELSE TryExcept(next_token_body(mdl, text, fault), next_token_failure)

\* mutant: vec[0].item(), the alternative the comment at line 179 names
layer_value_first_component(vec) == vec[1]

\* line 179
layer_value(vec) == norm(vec)

\* lines 165-186
residual_stream_body(mdl, text, fault) ==
  IF fault = "tokenize" THEN Raised
  ELSE LET inputs == tokenizer_call(text)
           outputs == IF fault = "forward" THEN Raised
                      ELSE forward(mdl, inputs.input_ids[1])
       IN IF IsRaised(outputs) \/ fault = "shape" THEN Raised
          ELSE LET hidden_states == outputs.hidden_states
                   num_tokens == Len(hidden_states[1][1])
                   num_layers == Len(hidden_states)
               IN [layer_values |->
                     [token_idx \in 1..num_tokens |->
                       [layer_idx \in 1..num_layers |->
                         layer_value(hidden_states[layer_idx][1][token_idx])]],
                   tokens |-> convert_ids_to_tokens(inputs.input_ids[1]),
                   num_layers |-> num_layers]

\* line 163
residual_stream_unavailable == [layer_values |-> <<>>]

\* line 189
residual_stream_failure == [layer_values |-> <<>>, tokens |-> <<>>, num_layers |-> 0]

\* lines 162-189
residual_stream_return(tok, mdl, text, fault) ==
  IF tok = None \/ mdl = None THEN residual_stream_unavailable
  ELSE TryExcept(residual_stream_body(mdl, text, fault), residual_stream_failure)

\* lines 207-215
attention_body(mdl, text, fault) ==
  IF fault = "tokenize" THEN Raised
  ELSE LET inputs == tokenizer_call(text)
           outputs == IF fault = "forward" THEN Raised
                      ELSE forward(mdl, inputs.input_ids[1])
       IN IF IsRaised(outputs) \/ fault = "shape" THEN Raised
          ELSE LET attentions == outputs.attentions
                   attentions_data ==
                     IF attentions # <<>>
                     THEN [l \in 1..Len(attentions) |-> attentions[l][1]]
                     ELSE <<>>
               IN [num_layers |-> Len(attentions_data),
                   attentions |-> attentions_data]

attention_failure == [num_layers |-> 0, attentions |-> <<>>]

\* lines 203-218
attention_return(tok, mdl, text, fault) ==
  IF tok = None \/ mdl = None THEN attention_failure
  ELSE TryExcept(attention_body(mdl, text, fault), attention_failure)

\* PCA(n_components=3).fit_transform(X): raises unless
\* n_components <= min(n_samples, n_features).  The data are centred per
\* column (scaled by n_samples to stay integral); the rotation onto the
\* principal axes is left out and the orientation of the axes is `sign`.
fit_transform(X, sign) ==
  LET n == Len(X)
  IN IF NComponents > n \/ NComponents > Len(X[1]) THEN Raised
     ELSE [value |->
            [i \in 1..n |->
              [j \in 1..NComponents |->
                sign * (n * X[i][j] - SumSeq([r \in 1..n |-> X[r][j]]))]]]

\* mutant: no inner try, a PCA error reaches the handler's outer except
pca_try_missing(step) == step

\* lines 243-250: the inner try around the projection
pca_try(step) == IF IsRaised(step) THEN [value |-> <<>>] ELSE step

\* lines 241-250
pca_step(hidden_states_data, fault, sign) ==
  IF hidden_states_data # <<>>
       /\ Len(hidden_states_data[Len(hidden_states_data)]) > 0
  THEN LET last_hidden == hidden_states_data[Len(hidden_states_data)]
       IN pca_try(IF fault = "pca" THEN Raised
                  ELSE IF Len(last_hidden[1]) >= 3
                       THEN fit_transform(last_hidden, sign)
                       ELSE [value |-> <<>>])
  ELSE [value |-> <<>>]

\* lines 235-256
embeddings_body(mdl, text, fault, sign) ==
  IF fault = "tokenize" THEN Raised
  ELSE LET inputs == tokenizer_call(text)
           outputs == IF fault = "forward" THEN Raised
                      ELSE forward(mdl, inputs.input_ids[1])
       IN IF IsRaised(outputs) \/ fault = "shape" THEN Raised
          ELSE LET hidden_states == outputs.hidden_states
                   hidden_states_data ==
                     IF hidden_states # <<>>
                     THEN [l \in 1..Len(hidden_states) |-> hidden_states[l][1]]
                     ELSE <<>>
                   embeddings3d == pca_step(hidden_states_data, fault, sign)
               IN IF IsRaised(embeddings3d) THEN Raised
                  ELSE [num_layers |-> Len(hidden_states_data),
                        hidden_states |-> hidden_states_data,
                        embeddings3d |-> embeddings3d.value]

embeddings_failure == [num_layers |-> 0, hidden_states |-> <<>>, embeddings3d |-> <<>>]

\* lines 231-259
embeddings_return(tok, mdl, text, fault, sign) ==
  IF tok = None \/ mdl = None THEN embeddings_failure
  ELSE TryExcept(embeddings_body(mdl, text, fault, sign), embeddings_failure)

\* line 264
health_return == [status |-> "ok", model |-> "gpt2"]

\* The value a handler returns for a request, given the module globals.
Return(req, tok, mdl) ==
  CASE req.endpoint = "/tokenize" -> tokenize_return(tok, req.text, req.fault)
    [] req.endpoint = "/next_token" -> next_token_return(tok, mdl, req.text, req.fault)
    [] req.endpoint = "/residual_stream" ->
         residual_stream_return(tok, mdl, req.text, req.fault)
    [] req.endpoint = "/attention" -> attention_return(tok, mdl, req.text, req.fault)
    [] req.endpoint = "/embeddings" ->
         embeddings_return(tok, mdl, req.text, req.fault, req.sign)
    [] req.endpoint = "/health" -> health_return

TextInput(endpoint, text, fault, sign) ==
  [endpoint |-> endpoint, text |-> text, fault |-> fault, sign |-> sign]

\* mutant: a handler that puts the shared model back into training mode
HandleMutatesSession(req) ==
  /\ pc = "serving"
  /\ response = NoResponse
  /\ request' = req
  /\ response' = Return(req, tokenizer, model)
  /\ model' = IF model = None THEN model ELSE [model EXCEPT !.training = TRUE]
  /\ UNCHANGED <<tokenizer, pc, loaded>>

Handle(req) ==
  /\ pc = "serving"
  /\ response = NoResponse
  /\ request' = req
  /\ response' = Return(req, tokenizer, model)
  /\ UNCHANGED <<tokenizer, model, pc, loaded>>

tokenize_text ==
  \E text \in Texts, fault \in FaultPoints("/tokenize") :
    Handle(TextInput("/tokenize", text, fault, 1))

next_token_prediction ==
  \E text \in Texts, fault \in FaultPoints("/next_token") :
    Handle(TextInput("/next_token", text, fault, 1))

get_residual_stream ==
  \E text \in Texts, fault \in FaultPoints("/residual_stream") :
    Handle(TextInput("/residual_stream", text, fault, 1))

get_attention ==
  \E text \in Texts, fault \in FaultPoints("/attention") :
    Handle(TextInput("/attention", text, fault, 1))

\* the inner try (lines 243-250) is entered only with at least one token
get_embeddings ==
  \E text \in Texts, fault \in FaultPoints("/embeddings"), sign \in {-1, 1} :
    /\ fault = "pca" => Len(encode(text)) > 0
    /\ Handle(TextInput("/embeddings", text, fault, sign))

health_check == Handle(TextInput("/health", <<>>, "none", 1))

\* the framework serialises the returned dict and the handler's frame ends
send_response ==
  /\ pc = "serving"
  /\ response # NoResponse
  /\ request' = NoRequest
  /\ response' = NoResponse
  /\ UNCHANGED <<tokenizer, model, pc, loaded>>

Next ==
  \/ load_tokenizer
  \/ load_model
  \/ model_eval
  \/ set_pad_token
  \/ load_error
  \/ tokenize_text
  \/ next_token_prediction
  \/ get_residual_stream
  \/ get_attention
  \/ get_embeddings
  \/ health_check
  \/ send_response

Spec == Init /\ [][Next]_vars

TypeOK ==
  /\ pc \in {"load_tokenizer", "load_model", "eval", "pad_token", "serving"}
  /\ response # NoResponse => request # NoRequest

\* ------------------------------------------------------------------- claims
TextEndpoints ==
  {"/tokenize", "/next_token", "/residual_stream", "/attention", "/embeddings"}

Responded == pc = "serving" /\ response # NoResponse

Available == tokenizer # None /\ model # None

Unavailable == tokenizer = None /\ model = None

\* the failure payload each endpoint documents
DocumentedFailure(endpoint) ==
  CASE endpoint = "/tokenize" ->
         [input_ids |-> EmptyList, tokens |-> <<>>, attention_mask |-> EmptyList]
    [] endpoint = "/next_token" ->
         [token |-> <<>>, token_id |-> -1, probability |-> <<0, 1>>, probs |-> <<>>]
    [] endpoint = "/residual_stream" ->
         [layer_values |-> <<>>, tokens |-> <<>>, num_layers |-> 0]
    [] endpoint = "/attention" -> [num_layers |-> 0, attentions |-> <<>>]
    [] endpoint = "/embeddings" ->
         [num_layers |-> 0, hidden_states |-> <<>>, embeddings3d |-> <<>>]

\* the request's token sequence, and whether the forward pass accepts it
NumTokens == Len(encode(request.text))

ForwardRuns == ~(NumTokens = 0 /\ model.empty_input_raises)

\* C1: with the session unavailable, every text endpoint returns its
\* documented failure payload, with every key of its success response.
C1_UnavailablePayload ==
  (Responded /\ Unavailable /\ request.endpoint \in TextEndpoints)
    => response = DocumentedFailure(request.endpoint)

\* C2: when /tokenize succeeds, input_ids and attention_mask have the same
\* length and every element of attention_mask is the integer 1.
C2_MaskMatchesIds ==
  (Responded /\ Available /\ request.endpoint = "/tokenize"
     /\ request.fault = "none")
    => /\ PyLen(response.input_ids) = PyLen(response.attention_mask)
       /\ response.attention_mask.rank = 1
       /\ \A i \in 1..PyLen(response.attention_mask) :
            response.attention_mask.list[i] = 1

\* C3 as stated: whichever step raises, PCA included, the handler returns
\* the endpoint's failure payload and the session is left unchanged.
C3_AnyRaiseGivesFailurePayload ==
  (Responded /\ Available /\ request.endpoint \in TextEndpoints
     /\ request.fault # "none")
    => /\ response = DocumentedFailure(request.endpoint)
       /\ tokenizer = loaded.tokenizer /\ model = loaded.model

\* C3 amended: no handler lets an exception out, for any text including the
\* empty one; a raise outside the PCA step gives the endpoint's failure
\* payload; a raise in the PCA step of /embeddings empties embeddings3d only
\* and num_layers and hidden_states are returned as on success; the session
\* is left unchanged.
C3_RaiseIsCaught ==
  (Responded /\ Available /\ request.endpoint \in TextEndpoints)
    => /\ ~IsRaised(response)
       /\ DOMAIN response = DOMAIN DocumentedFailure(request.endpoint)
       /\ request.fault \notin {"none", "pca"}
            => response = DocumentedFailure(request.endpoint)
       /\ request.fault = "pca"
            => /\ response.embeddings3d = <<>>
               /\ response.num_layers = NumBlocks + 1
               /\ Len(response.hidden_states) = NumBlocks + 1
               /\ \A l \in 1..(NumBlocks + 1) :
                    Len(response.hidden_states[l]) = NumTokens
       /\ tokenizer = loaded.tokenizer /\ model = loaded.model

C3_Witness ==
  /\ Responded /\ Available
  /\ request.endpoint = "/embeddings" /\ request.fault = "pca"
  /\ NumTokens = 3 /\ model.hidden_dim = 3
  /\ response.hidden_states # <<>> /\ response.embeddings3d = <<>>

\* the raw tokens of a /tokenize response, cleaned one by one
CleanedRaw ==
  [i \in 1..PyLen(response.input_ids) |->
    clean_token(Vocab[response.input_ids.list[i] + 1])]

FirstSeen(tok) == CHOOSE i \in 1..Len(CleanedRaw) :
  /\ CleanedRaw[i] = tok
  /\ \A j \in 1..(i - 1) : CleanedRaw[j] # tok

\* C4: the tokens of /tokenize hold no string twice, are at most as many as
\* the raw tokens, hold every distinct cleaned raw token, and are in the
\* order of first occurrence in the cleaned raw sequence.
C4_DedupFirstSeen ==
  (Responded /\ Available /\ request.endpoint = "/tokenize"
     /\ request.fault = "none")
    => LET tokens == response.tokens
       IN /\ \A i, j \in 1..Len(tokens) : i # j => tokens[i] # tokens[j]
          /\ Len(tokens) <= PyLen(response.input_ids)
          /\ {tokens[i] : i \in 1..Len(tokens)}
               = {CleanedRaw[i] : i \in 1..Len(CleanedRaw)}
          /\ \A i, j \in 1..Len(tokens) :
               i < j => FirstSeen(tokens[i]) < FirstSeen(tokens[j])

C4_Witness ==
  /\ Responded /\ Available
  /\ request.endpoint = "/tokenize" /\ request.fault = "none"
  /\ Len(response.tokens) = 2
  /\ PyLen(response.input_ids) = 3

SortedDescending(probs) ==
  \A i \in 1..(Len(probs) - 1) : ProbGeq(probs[i].prob, probs[i + 1].prob)

\* C5 as stated: for every text /next_token returns exactly 10 entries
\* (fewer only with a vocabulary under 10), sorted by descending prob.
C5_AlwaysTenSorted ==
  (Responded /\ Available /\ request.endpoint = "/next_token"
     /\ request.fault = "none")
    => /\ model.vocab_size >= TopK => Len(response.probs) = TopK
       /\ Len(response.probs) <= TopK
       /\ SortedDescending(response.probs)

\* C5 amended: for every text of at least one token on which no step raises,
\* /next_token returns exactly 10 entries sorted by descending prob, the
\* first of them being the reported token; for the empty text, a vocabulary
\* under 10 or a raised exception it returns the failure payload.
C5_TenSortedWhenNonEmpty ==
  (Responded /\ Available /\ request.endpoint = "/next_token")
    => IF request.fault = "none" /\ request.text # <<>>
            /\ model.vocab_size >= TopK
       THEN /\ Len(response.probs) = TopK
            /\ SortedDescending(response.probs)
            /\ response.probability = response.probs[1].prob
            /\ response.token = response.probs[1].token
       ELSE response = DocumentedFailure("/next_token")

C5_Witness ==
  /\ Responded /\ Available
  /\ request.endpoint = "/next_token" /\ request.fault = "none"
  /\ Len(response.probs) = TopK
  /\ ~ProbGeq(response.probs[TopK].prob, response.probs[1].prob)

\* C6: when /residual_stream succeeds, layer_values has one entry per input
\* token, each of num_layers values, all >= 0, and tokens is as long.
C6_ResidualShape ==
  (Responded /\ Available /\ request.endpoint = "/residual_stream"
     /\ request.fault = "none" /\ ForwardRuns)
    => /\ Len(response.layer_values) = NumTokens
       /\ Len(response.tokens) = Len(response.layer_values)
       /\ response.num_layers = NumBlocks + 1
       /\ \A t \in 1..Len(response.layer_values) :
            /\ Len(response.layer_values[t]) = response.num_layers
            /\ \A l \in 1..response.num_layers : response.layer_values[t][l] >= 0

C6_Witness ==
  /\ Responded /\ Available
  /\ request.endpoint = "/residual_stream" /\ request.fault = "none"
  /\ Len(response.layer_values) = 3
  /\ \E l \in 1..response.num_layers : response.layer_values[3][l] > 0

\* C7: with one or two tokens, or a hidden width under 3, and no failure
\* before the PCA step, /embeddings returns non-empty hidden_states,
\* num_layers equal to their count and an empty embeddings3d; a failure in
\* the PCA step alone never gives the whole-endpoint failure payload.
C7_SmallInputKeepsHiddenStates ==
  (Responded /\ Available /\ request.endpoint = "/embeddings"
     /\ request.fault \in {"none", "pca"} /\ NumTokens >= 1)
    => /\ response # DocumentedFailure("/embeddings")
       /\ response.hidden_states # <<>>
       /\ response.num_layers = Len(response.hidden_states)
       /\ (NumTokens < 3 \/ model.hidden_dim < 3 \/ request.fault = "pca")
            => response.embeddings3d = <<>>

C7_Witness ==
  /\ Responded /\ Available
  /\ request.endpoint = "/embeddings" /\ request.fault = "none"
  /\ NumTokens = 2 /\ model.hidden_dim = 3
  /\ response.hidden_states # <<>> /\ response.embeddings3d = <<>>

\* the response with the PCA coordinates reduced to their row count
WithoutPCA(r) ==
  IF "embeddings3d" \in DOMAIN r THEN [r EXCEPT !.embeddings3d = Len(@)] ELSE r

Display(raw) ==
  IF raw[1] = Marker THEN <<" ">> \o SubSeq(raw, 2, Len(raw)) ELSE raw

\* C9: /tokenize shows a raw token that begins with the marker with that
\* one marker replaced by a space and the rest unchanged, and any other raw
\* token unchanged; raw tokens that clean to one string give one token.
C9_LeadingMarkerToSpace ==
  (Responded /\ Available /\ request.endpoint = "/tokenize"
     /\ request.fault = "none")
    => LET ids == response.input_ids.list
           shown == {response.tokens[i] : i \in 1..Len(response.tokens)}
       IN /\ shown = {Display(Vocab[ids[i] + 1]) : i \in 1..Len(ids)}
          /\ Cardinality(shown) = Len(response.tokens)

C9_Witness ==
  /\ Responded /\ Available
  /\ request.endpoint = "/tokenize" /\ request.fault = "none"
  /\ response.tokens = << <<" ", Marker>>, <<" ">> >>

\* C10: after startup the tokenizer is None exactly when the model is None,
\* neither is left unbound, and /tokenize returns its failure payload
\* whenever the model is None.
C10_BothOrNeither ==
  pc = "serving"
    => /\ tokenizer = None <=> model = None
       /\ tokenizer # Unbound /\ model # Unbound
       /\ (response # NoResponse /\ request.endpoint = "/tokenize" /\ model = None)
            => response = DocumentedFailure("/tokenize")

C10_Witness ==
  /\ Responded /\ Unavailable
  /\ request.endpoint = "/tokenize"
  /\ response = DocumentedFailure("/tokenize")

====
